---- MODULE Spec2Model ----
(***************************************************************************)
(* Model of the World Radio Garden component (src/src/App.tsx): the React  *)
(* state of App, the single Audio handle, the two network requests and the *)
(* handlers that run on load completion, keystrokes, marker clicks and     *)
(* weather responses.                                                      *)
(*                                                                         *)
(* JavaScript runs every callback to completion, so a callback's steps are *)
(* never interleaved with another callback; pc records the position inside *)
(* the running callback ("idle" between callbacks).  The setters called in *)
(* the click handler are applied together at the following render (the     *)
(* commit step), while its audio commands act at once; the setters of the  *)
(* two request continuations are taken in the order the code calls them.   *)
(* The effects of a re-render run before the next callback.                *)
(*                                                                         *)
(* Strings that the code inspects (name, country, city, query) are         *)
(* sequences of one-character strings; ids and URLs are opaque strings.    *)
(* Station ids follow the RadioStation interface: each is a string, and    *)
(* the ids of one response are pairwise distinct.                          *)
(***************************************************************************)
EXTENDS Integers, Sequences, FiniteSets, TLC

VARIABLES
    stations,        \* useState<RadioStation[]>([])
    searchQuery,     \* useState('')
    loading,         \* useState(true)
    currentStation,  \* useState<RadioStation | null>(null)
    isPlaying,       \* useState(false)
    weatherData,     \* useState<WeatherData | null>(null)
    audio,           \* useState(new Audio()): its src and the last command given
    mapCenter,       \* useState<[number, number]>([20, 0])
    stationReq,      \* the station-directory request: none, pending, ok, failed
    stationRequests, \* number of station-directory requests issued
    weatherPending,  \* outstanding weather requests: city -> how many
    weatherLog,      \* the cities of the weather requests issued, in order
    effectDep,       \* the [currentStation] dependency React stored at the last effect run
    pc,              \* position inside the running callback
    event,           \* the callback that is running, with its argument
    selectHist       \* history: the state at the last two clicks on a marker button

vars == <<stations, searchQuery, loading, currentStation, isPlaying, weatherData,
          audio, mapCenter, stationReq, stationRequests, weatherPending,
          weatherLog, effectDep, pc, event, selectHist>>

----------------------------------------------------------------------------
(* Bounds *)

MaxStations == 2    \* longest station list a response carries
MaxRequests == 3    \* weather requests issued in one run
MaxQueryLen == 2    \* longest query the filter is applied to on its own
MaxFilterLen == 2   \* longest station list the filter is applied to on its own

----------------------------------------------------------------------------
(* Data *)

Null == [null |-> TRUE]

DefaultLat == 20
DefaultLong == 0

Station1 ==
    [id |-> "1", name |-> <<"J","a","z","z">>, country |-> <<"F","r","a","n","c","e">>,
     url |-> "http://s1", favicon |-> "f1", geo_lat |-> 48, geo_long |-> 2,
     city |-> <<"P","a","r","i","s">>]

Station2 ==
    [id |-> "2", name |-> <<"B","e","a","t">>, country |-> <<"J","a","p","a","n">>,
     url |-> "http://s2", favicon |-> "", geo_lat |-> 35, geo_long |-> 139,
     city |-> <<"T","o","k","y","o">>]

Station3 ==
    [id |-> "3", name |-> <<"R","o","c","k">>, country |-> <<"F","r","a","n","c","e">>,
     url |-> "http://s3", favicon |-> "f3", geo_lat |-> 43, geo_long |-> 5,
     city |-> <<"P","a","r","i","s">>]

RadioStation == {Station1, Station2, Station3}

Cities == {s.city : s \in RadioStation}

(* The lists a station-directory response may carry: distinct stations. *)
StationLists ==
    {l \in UNION {[1..n -> RadioStation] : n \in 0..MaxStations} :
        \A i, j \in 1..Len(l) : i # j => l[i].id # l[j].id}

(* The texts typed into the search field. *)
Queries == {<<>>, <<"A","Z">>, <<"o">>, <<"F","r">>, <<"x">>}

(* What the weather service answers for a city: temp in tenths of a degree. *)
WeatherResponse(city) ==
    IF city = <<"P","a","r","i","s">>
    THEN [temp |-> 216, description |-> "clear sky", icon |-> "01d"]
    ELSE [temp |-> -25, description |-> "rain", icon |-> "10n"]

(* Math.round on a value given in tenths: to the nearest integer, halves up. *)
MathRound(tenths) == (tenths + 5) \div 10

WeatherData(resp) ==
    [temperature |-> MathRound(resp.temp), description |-> resp.description,
     icon |-> resp.icon]

----------------------------------------------------------------------------
(* Search filter *)

(* Characters outside ASCII are written by name: "SIGMA" is the capital
   sigma U+03A3, "sigma" the small sigma U+03C3, "sigmaf" the small final
   sigma U+03C2, and likewise "OMICRON"/"omicron", "DELTA"/"delta". *)
LowerChar(c) ==
    CASE c = "A" -> "a" [] c = "B" -> "b" [] c = "F" -> "f" [] c = "G" -> "g"
      [] c = "J" -> "j" [] c = "O" -> "o" [] c = "P" -> "p" [] c = "R" -> "r"
      [] c = "T" -> "t" [] c = "Z" -> "z"
      [] c = "SIGMA" -> "sigma" [] c = "OMICRON" -> "omicron" [] c = "DELTA" -> "delta"
      [] OTHER -> c

(* Every character of the model is a cased letter except the space; none is
   case-ignorable. *)
IsCased(c) == c # " "

(* The one context-sensitive lower-case mapping that does not depend on the
   locale: a capital sigma that follows a cased letter and is not followed
   by one becomes the final sigma. *)
FinalSigma(str, i) ==
    /\ str[i] = "SIGMA"
    /\ i > 1
    /\ IsCased(str[i - 1])
    /\ ~(i < Len(str) /\ IsCased(str[i + 1]))

toLowerCase(str) ==
    [i \in 1..Len(str) |-> IF FinalSigma(str, i) THEN "sigmaf" ELSE LowerChar(str[i])]

includes(hay, needle) ==
    \E i \in 0..(Len(hay) - Len(needle)) : SubSeq(hay, i + 1, i + Len(needle)) = needle

Matches(station, query) ==
    \/ includes(toLowerCase(station.name), toLowerCase(query))
    \/ includes(toLowerCase(station.country), toLowerCase(query))
    \/ includes(toLowerCase(station.city), toLowerCase(query))

filteredStations(list, query) == SelectSeq(list, LAMBDA s : Matches(s, query))

InView(list, query) ==
    {filteredStations(list, query)[i] : i \in 1..Len(filteredStations(list, query))}

----------------------------------------------------------------------------
(* Initial state: the first render, before its effects have run *)

Init ==
    /\ stations = <<>>
    /\ searchQuery = <<>>
    /\ loading = TRUE
    /\ currentStation = Null
    /\ isPlaying = FALSE
    /\ weatherData = Null
    /\ audio = [src |-> "", lastCmd |-> "none"]
    /\ mapCenter = <<DefaultLat, DefaultLong>>
    /\ stationReq = "none"
    /\ stationRequests = 0
    /\ weatherPending = [c \in Cities |-> 0]
    /\ weatherLog = <<>>
    /\ effectDep = Null
    /\ pc = "mount"
    /\ event = [type |-> "mount"]
    /\ selectHist = <<>>

----------------------------------------------------------------------------
(* Helpers read off the handlers *)

NoEvent == [type |-> "none"]

(* Variant: no station yet counts as the same station (undefined === undefined). *)
SameStationLoose(cur, station) == IF cur = Null THEN TRUE ELSE cur.id = station.id

(* currentStation?.id === station.id *)
SameStation(cur, station) == cur # Null /\ cur.id = station.id

(* Variant: the two branches of the toggle exchanged. *)
ToggleCommandInverted(playing) == IF playing THEN "play" ELSE "pause"

(* if (isPlaying) audio.pause() else audio.play() *)
ToggleCommand(playing) == IF playing THEN "pause" ELSE "play"

(* Variant: the map is centred on the last station of the response. *)
FirstCenterLast(list, center) ==
    IF Len(list) > 0 THEN <<list[Len(list)].geo_lat, list[Len(list)].geo_long>> ELSE center

(* if (response.data.length > 0) setMapCenter([data[0].geo_lat, data[0].geo_long]) *)
FirstCenter(list, center) ==
    IF Len(list) > 0 THEN <<list[1].geo_lat, list[1].geo_long>> ELSE center

(* Variant: longitude and latitude exchanged. *)
StationCenterSwapped(station) == <<station.geo_long, station.geo_lat>>

(* setMapCenter([station.geo_lat, station.geo_long]) *)
StationCenter(station) == <<station.geo_lat, station.geo_long>>

(* Variant: an effect without its dependency list, run after every render. *)
WeatherEffectEveryRender(dep, cur) == cur # Null

(* Variant: a city that was requested before is not requested again. *)
WeatherEffectCached(dep, cur) ==
    dep # cur /\ cur # Null /\ \A i \in 1..Len(weatherLog) : weatherLog[i] # cur.city

(* useEffect(() => { if (currentStation) fetchWeather(currentStation.city) },
   [currentStation]): whether the effect body runs and issues a request. *)
WeatherEffectFires(dep, cur) == dep # cur /\ cur # Null

----------------------------------------------------------------------------
(* Mount: the effects of the first render. fetchStations() issues the one
   station-directory request; the weather effect finds no current station. *)

Mount ==
    /\ pc = "mount"
    /\ stationReq' = "pending"
    /\ stationRequests' = stationRequests + 1
    /\ effectDep' = currentStation
    /\ pc' = "idle"
    /\ event' = NoEvent
    /\ UNCHANGED <<stations, searchQuery, loading, currentStation, isPlaying,
                   weatherData, audio, mapCenter, weatherPending, weatherLog>>
    /\ UNCHANGED selectHist

----------------------------------------------------------------------------
(* fetchStations: the continuation after the awaited response *)

fetchStationsOk(list) ==
    /\ pc = "idle"
    /\ stationReq = "pending"
    /\ stations' = list
    /\ mapCenter' = FirstCenter(list, mapCenter)
    /\ stationReq' = "ok"
    /\ pc' = "finally"
    /\ event' = [type |-> "loadOk", list |-> list]
    /\ UNCHANGED <<searchQuery, loading, currentStation, isPlaying, weatherData,
                   audio, stationRequests, weatherPending, weatherLog, effectDep>>
    /\ UNCHANGED selectHist

(* Variant: catch without finally, the loading flag is never cleared. *)
fetchStationsErrNoFinally ==
    /\ pc = "idle"
    /\ stationReq = "pending"
    /\ stationReq' = "failed"
    /\ pc' = "effects"
    /\ event' = [type |-> "loadErr"]
    /\ UNCHANGED <<stations, searchQuery, loading, currentStation, isPlaying,
                   weatherData, audio, mapCenter, stationRequests, weatherPending,
                   weatherLog, effectDep>>
    /\ UNCHANGED selectHist

fetchStationsErr ==
    /\ pc = "idle"
    /\ stationReq = "pending"
    /\ stationReq' = "failed"
    /\ pc' = "finally"
    /\ event' = [type |-> "loadErr"]
    /\ UNCHANGED <<stations, searchQuery, loading, currentStation, isPlaying,
                   weatherData, audio, mapCenter, stationRequests, weatherPending,
                   weatherLog, effectDep>>
    /\ UNCHANGED selectHist

fetchStationsFinally ==
    /\ pc = "finally"
    /\ loading' = FALSE
    /\ pc' = "effects"
    /\ UNCHANGED <<stations, searchQuery, currentStation, isPlaying, weatherData,
                   audio, mapCenter, stationReq, stationRequests, weatherPending,
                   weatherLog, effectDep, event>>
    /\ UNCHANGED selectHist

----------------------------------------------------------------------------
(* fetchWeather: the continuation after the awaited response. Any
   outstanding request may be answered next. *)

(* Variant: a response for a city other than the current station's is dropped. *)
fetchWeatherOkFresh(city) ==
    /\ pc = "idle"
    /\ weatherPending[city] > 0
    /\ weatherPending' = [weatherPending EXCEPT ![city] = @ - 1]
    /\ weatherData' = IF currentStation # Null /\ currentStation.city = city
                      THEN WeatherData(WeatherResponse(city)) ELSE weatherData
    /\ pc' = "effects"
    /\ event' = [type |-> "weatherOk", city |-> city]
    /\ UNCHANGED <<stations, searchQuery, loading, currentStation, isPlaying,
                   audio, mapCenter, stationReq, stationRequests, weatherLog,
                   effectDep>>
    /\ UNCHANGED selectHist

fetchWeatherOk(city) ==
    /\ pc = "idle"
    /\ weatherPending[city] > 0
    /\ weatherPending' = [weatherPending EXCEPT ![city] = @ - 1]
    /\ weatherData' = WeatherData(WeatherResponse(city))
    /\ pc' = "effects"
    /\ event' = [type |-> "weatherOk", city |-> city]
    /\ UNCHANGED <<stations, searchQuery, loading, currentStation, isPlaying,
                   audio, mapCenter, stationReq, stationRequests, weatherLog,
                   effectDep>>
    /\ UNCHANGED selectHist

(* Variant: a failed request clears the snapshot. *)
fetchWeatherErrClear(city) ==
    /\ pc = "idle"
    /\ weatherPending[city] > 0
    /\ weatherPending' = [weatherPending EXCEPT ![city] = @ - 1]
    /\ weatherData' = Null
    /\ pc' = "effects"
    /\ event' = [type |-> "weatherErr", city |-> city]
    /\ UNCHANGED <<stations, searchQuery, loading, currentStation, isPlaying,
                   audio, mapCenter, stationReq, stationRequests, weatherLog,
                   effectDep>>
    /\ UNCHANGED selectHist

fetchWeatherErr(city) ==
    /\ pc = "idle"
    /\ weatherPending[city] > 0
    /\ weatherPending' = [weatherPending EXCEPT ![city] = @ - 1]
    /\ pc' = "effects"
    /\ event' = [type |-> "weatherErr", city |-> city]
    /\ UNCHANGED <<stations, searchQuery, loading, currentStation, isPlaying,
                   weatherData, audio, mapCenter, stationReq, stationRequests,
                   weatherLog, effectDep>>
    /\ UNCHANGED selectHist

----------------------------------------------------------------------------
(* handleSearch: the text field exists only once loading is false *)

(* Variant: a keystroke drops the current selection. *)
handleSearchClears(query) ==
    /\ pc = "idle"
    /\ ~loading
    /\ query # searchQuery
    /\ searchQuery' = query
    /\ currentStation' = Null
    /\ isPlaying' = FALSE
    /\ pc' = "effects"
    /\ event' = [type |-> "search", query |-> query]
    /\ UNCHANGED <<stations, loading, weatherData, audio, mapCenter, stationReq,
                   stationRequests, weatherPending, weatherLog, effectDep>>
    /\ UNCHANGED selectHist

handleSearch(query) ==
    /\ pc = "idle"
    /\ ~loading
    /\ query # searchQuery
    /\ searchQuery' = query
    /\ pc' = "effects"
    /\ event' = [type |-> "search", query |-> query]
    /\ UNCHANGED <<stations, loading, currentStation, isPlaying, weatherData,
                   audio, mapCenter, stationReq, stationRequests, weatherPending,
                   weatherLog, effectDep>>
    /\ UNCHANGED selectHist

----------------------------------------------------------------------------
(* handlePlayStation: a click on the button of a rendered marker. The
   handler reads currentStation and isPlaying of the render it was created
   in; event keeps them. The audio commands act at once, the setters at the
   commit. *)

(* History kept for the properties, not read by any handler: the state in
   which each of the last two clicks found the component, with the station
   clicked. *)
Remember(hist, station) ==
    LET snap == [station |-> station, currentStation |-> currentStation,
                 isPlaying |-> isPlaying, audio |-> audio, mapCenter |-> mapCenter]
    IN  IF Len(hist) = 0 THEN <<snap>> ELSE <<hist[Len(hist)], snap>>

Clickable(station) ==
    /\ pc = "idle"
    /\ ~loading
    /\ station \in InView(stations, searchQuery)

SelectEvent(station) ==
    [type |-> "select", station |-> station,
     currentStation |-> currentStation, isPlaying |-> isPlaying]

handlePlayStationToggle(station) ==
    /\ Clickable(station)
    /\ SameStation(currentStation, station)
    /\ audio' = [audio EXCEPT !.lastCmd = ToggleCommand(isPlaying)]
    /\ pc' = "toggle_commit"
    /\ event' = SelectEvent(station)
    /\ UNCHANGED <<stations, searchQuery, loading, currentStation, isPlaying,
                   weatherData, mapCenter, stationReq, stationRequests,
                   weatherPending, weatherLog, effectDep>>
    /\ selectHist' = Remember(selectHist, station)

(* Variant: the toggle always marks the station as playing. *)
handlePlayStationToggleCommitTrue ==
    /\ pc = "toggle_commit"
    /\ isPlaying' = TRUE
    /\ pc' = "effects"
    /\ UNCHANGED <<stations, searchQuery, loading, currentStation, weatherData,
                   audio, mapCenter, stationReq, stationRequests, weatherPending,
                   weatherLog, effectDep, event>>
    /\ UNCHANGED selectHist

handlePlayStationToggleCommit ==
    /\ pc = "toggle_commit"
    /\ isPlaying' = ~event.isPlaying
    /\ pc' = "effects"
    /\ UNCHANGED <<stations, searchQuery, loading, currentStation, weatherData,
                   audio, mapCenter, stationReq, stationRequests, weatherPending,
                   weatherLog, effectDep, event>>
    /\ UNCHANGED selectHist

(* Variant: the switch does not pause the handle first. *)
handlePlayStationNoPause(station) ==
    /\ pc = "idle"
    /\ ~loading
    /\ station \in InView(stations, searchQuery)
    /\ ~SameStation(currentStation, station)
    /\ Len(weatherLog) < MaxRequests
    /\ pc' = "switch_src"
    /\ event' = [type |-> "select", station |-> station,
                 currentStation |-> currentStation, isPlaying |-> isPlaying]
    /\ UNCHANGED <<stations, searchQuery, loading, currentStation, isPlaying,
                   weatherData, audio, mapCenter, stationReq, stationRequests,
                   weatherPending, weatherLog, effectDep>>
    /\ selectHist' = Remember(selectHist, station)

handlePlayStationPause(station) ==
    /\ Clickable(station)
    /\ ~SameStation(currentStation, station)
    /\ Len(weatherLog) < MaxRequests
    /\ audio' = [audio EXCEPT !.lastCmd = "pause"]
    /\ pc' = "switch_src"
    /\ event' = SelectEvent(station)
    /\ UNCHANGED <<stations, searchQuery, loading, currentStation, isPlaying,
                   weatherData, mapCenter, stationReq, stationRequests,
                   weatherPending, weatherLog, effectDep>>
    /\ selectHist' = Remember(selectHist, station)

handlePlayStationSrc ==
    /\ pc = "switch_src"
    /\ audio' = [audio EXCEPT !.src = event.station.url]
    /\ pc' = "switch_play"
    /\ UNCHANGED <<stations, searchQuery, loading, currentStation, isPlaying,
                   weatherData, mapCenter, stationReq, stationRequests,
                   weatherPending, weatherLog, effectDep, event>>
    /\ UNCHANGED selectHist

(* Variant: the switch never starts the new stream. *)
handlePlayStationPlayMissing ==
    /\ pc = "switch_play"
    /\ pc' = "switch_commit"
    /\ UNCHANGED <<stations, searchQuery, loading, currentStation, isPlaying,
                   weatherData, audio, mapCenter, stationReq, stationRequests,
                   weatherPending, weatherLog, effectDep, event>>
    /\ UNCHANGED selectHist

handlePlayStationPlay ==
    /\ pc = "switch_play"
    /\ audio' = [audio EXCEPT !.lastCmd = "play"]
    /\ pc' = "switch_commit"
    /\ UNCHANGED <<stations, searchQuery, loading, currentStation, isPlaying,
                   weatherData, mapCenter, stationReq, stationRequests,
                   weatherPending, weatherLog, effectDep, event>>
    /\ UNCHANGED selectHist

(* Variant: the switch does not move the map. *)
handlePlayStationCommitNoCenter ==
    /\ pc = "switch_commit"
    /\ currentStation' = event.station
    /\ isPlaying' = TRUE
    /\ pc' = "effects"
    /\ UNCHANGED <<stations, searchQuery, loading, weatherData, audio, mapCenter,
                   stationReq, stationRequests, weatherPending, weatherLog,
                   effectDep, event>>
    /\ UNCHANGED selectHist

handlePlayStationCommit ==
    /\ pc = "switch_commit"
    /\ currentStation' = event.station
    /\ isPlaying' = TRUE
    /\ mapCenter' = StationCenter(event.station)
    /\ pc' = "effects"
    /\ UNCHANGED <<stations, searchQuery, loading, weatherData, audio,
                   stationReq, stationRequests, weatherPending, weatherLog,
                   effectDep, event>>
    /\ UNCHANGED selectHist

----------------------------------------------------------------------------
(* The effects after a re-render: useEffect[currentStation] runs when the
   dependency differs from the stored one, and calls fetchWeather, which
   issues its request before its first await. *)

(* Variant: the mount effect without its empty dependency list, so that
   fetchStations is called again after every re-render. *)
RunEffectsRefetch ==
    /\ pc = "effects"
    /\ stationReq' = "pending"
    /\ stationRequests' = stationRequests + 1
    /\ IF WeatherEffectFires(effectDep, currentStation)
       THEN /\ weatherPending' = [weatherPending EXCEPT ![currentStation.city] = @ + 1]
            /\ weatherLog' = Append(weatherLog, currentStation.city)
       ELSE UNCHANGED <<weatherPending, weatherLog>>
    /\ effectDep' = currentStation
    /\ pc' = "idle"
    /\ event' = NoEvent
    /\ UNCHANGED <<stations, searchQuery, loading, currentStation, isPlaying,
                   weatherData, audio, mapCenter>>
    /\ UNCHANGED selectHist

RunEffects ==
    /\ pc = "effects"
    /\ IF WeatherEffectFires(effectDep, currentStation)
       THEN /\ weatherPending' = [weatherPending EXCEPT ![currentStation.city] = @ + 1]
            /\ weatherLog' = Append(weatherLog, currentStation.city)
       ELSE UNCHANGED <<weatherPending, weatherLog>>
    /\ effectDep' = currentStation
    /\ pc' = "idle"
    /\ event' = NoEvent
    /\ UNCHANGED <<stations, searchQuery, loading, currentStation, isPlaying,
                   weatherData, audio, mapCenter, stationReq, stationRequests>>
    /\ UNCHANGED selectHist

----------------------------------------------------------------------------

(* The filter on its own: any list of stations and any query, as the
   component holds them once the load is done and a text has been typed; the
   render computes filteredStations from them. *)

Station4 ==
    [id |-> "4", name |-> <<"OMICRON","DELTA","OMICRON","SIGMA">>,
     country |-> <<"G","r","e","e","c","e">>,
     url |-> "http://s4", favicon |-> "f4", geo_lat |-> 38, geo_long |-> 24,
     city |-> <<"A","t","h","e","n","s">>]

FilterStations == {Station1, Station2, Station4}

FilterLists == UNION {[1..n -> FilterStations] : n \in 0..MaxFilterLen}

QueryChars == {"a", "Z", "o", "SIGMA", "sigmaf"}

FilterQueries == UNION {[1..n -> QueryChars] : n \in 0..MaxQueryLen}

InitFilter ==
    /\ stations \in FilterLists
    /\ searchQuery \in FilterQueries
    /\ loading = FALSE
    /\ currentStation = Null
    /\ isPlaying = FALSE
    /\ weatherData = Null
    /\ audio = [src |-> "", lastCmd |-> "none"]
    /\ mapCenter = FirstCenter(stations, <<DefaultLat, DefaultLong>>)
    /\ stationReq = "ok"
    /\ stationRequests = 1
    /\ weatherPending = [c \in Cities |-> 0]
    /\ weatherLog = <<>>
    /\ effectDep = Null
    /\ pc = "render"
    /\ event = [type |-> "render"]
    /\ selectHist = <<>>

Render ==
    /\ pc = "render"
    /\ event' = [type |-> "render", view |-> filteredStations(stations, searchQuery)]
    /\ pc' = "rendered"
    /\ UNCHANGED <<stations, searchQuery, loading, currentStation, isPlaying,
                   weatherData, audio, mapCenter, stationReq, stationRequests,
                   weatherPending, weatherLog, effectDep, selectHist>>

SpecFilter == InitFilter /\ [][Render]_vars

----------------------------------------------------------------------------

Next ==
    \/ Mount
    \/ \E list \in StationLists : fetchStationsOk(list)
    \/ fetchStationsErr
    \/ fetchStationsFinally
    \/ \E city \in Cities : fetchWeatherOk(city)
    \/ \E city \in Cities : fetchWeatherErr(city)
    \/ \E query \in Queries : handleSearch(query)
    \/ \E station \in RadioStation : handlePlayStationToggle(station)
    \/ handlePlayStationToggleCommit
    \/ \E station \in RadioStation : handlePlayStationPause(station)
    \/ handlePlayStationSrc
    \/ handlePlayStationPlay
    \/ handlePlayStationCommit
    \/ RunEffects

Spec == Init /\ [][Next]_vars

----------------------------------------------------------------------------
(* Shorthands for the properties *)

Paris == <<"P","a","r","i","s">>
Tokyo == <<"T","o","k","y","o">>

(* The handler that has just finished (its setters committed, the effects of
   the re-render not yet run) was a selection of a station other than the
   one current when it started. *)
AfterSwitch ==
    /\ pc = "effects"
    /\ event.type = "select"
    /\ ~(event.currentStation # Null /\ event.currentStation.id = event.station.id)

(* ... or of the station that was current when it started. *)
AfterToggle ==
    /\ pc = "effects"
    /\ event.type = "select"
    /\ event.currentStation # Null
    /\ event.currentStation.id = event.station.id

(* A step of a selection of the station that is already current: the click,
   the commit of its setter, the effects of the re-render. *)
ToggleStep ==
    \/ /\ pc = "idle"
       /\ event'.type = "select"
       /\ currentStation # Null
       /\ currentStation.id = event'.station.id
    \/ /\ pc # "idle"
       /\ event.type = "select"
       /\ event.currentStation # Null
       /\ event.currentStation.id = event.station.id

----------------------------------------------------------------------------
(* C1: in every reachable state, if isPlaying is true then currentStation is
   set; and at most one station is current. *)
C1_PlayingHasStation ==
    /\ isPlaying => currentStation # Null
    /\ currentStation # Null => currentStation \in RadioStation
    /\ Cardinality({s \in RadioStation : currentStation # Null /\ currentStation.id = s.id}) <= 1

C1_Witness == pc = "idle" /\ isPlaying /\ currentStation = Station2

(* C2: a selection of a station whose id differs from the current station's
   (or with no station current), from Idle, Playing(A) or Paused(A), ends
   with that station current, playing true, the audio source its URL with
   play commanded, and the map centred on its coordinates. *)
C2_SwitchResult ==
    AfterSwitch =>
        /\ currentStation = event.station
        /\ isPlaying = TRUE
        /\ audio = [src |-> event.station.url, lastCmd |-> "play"]
        /\ mapCenter = <<event.station.geo_lat, event.station.geo_long>>

C2_Witness ==
    /\ AfterSwitch
    /\ event.currentStation = Station1
    /\ event.isPlaying = FALSE
    /\ currentStation = Station2

(* C3: selecting the station that is already current toggles playback: from
   Playing(A) the handle is paused and playing becomes false, from Paused(A)
   the handle is told to play and playing becomes true. *)
C3_Toggle ==
    AfterToggle =>
        /\ event.isPlaying => (audio.lastCmd = "pause" /\ isPlaying = FALSE)
        /\ ~event.isPlaying => (audio.lastCmd = "play" /\ isPlaying = TRUE)

C3_Witness ==
    /\ AfterToggle
    /\ event.isPlaying = FALSE
    /\ isPlaying = TRUE
    /\ audio.lastCmd = "play"

(* C4: selecting the station that is already current changes only the
   playing flag and the command given to the handle: current station, audio
   source, map center, station collection and weather snapshot stay, and no
   weather request (and no stream load) is issued. *)
C4_ToggleFrame ==
    [][ToggleStep =>
          /\ currentStation' = currentStation
          /\ audio'.src = audio.src
          /\ mapCenter' = mapCenter
          /\ stations' = stations
          /\ weatherData' = weatherData
          /\ weatherLog' = weatherLog
          /\ weatherPending' = weatherPending
          /\ stationRequests' = stationRequests
          /\ searchQuery' = searchQuery
          /\ loading' = loading]_vars

C4_Witness ==
    /\ pc = "idle"
    /\ currentStation = Station1
    /\ isPlaying = FALSE
    /\ audio = [src |-> Station1.url, lastCmd |-> "pause"]
    /\ weatherLog = <<Paris>>

(* C5: when B is selected while A plays, the handle is paused before its
   source is switched to B's URL and before play is issued for B: the source
   changes only on a paused handle, play is issued only with the source
   already that of the selected station, and between the pause and the play
   of a switch no stream is active. *)
C5_StopBeforeStart ==
    /\ [](pc \in {"switch_src", "switch_play"} => audio.lastCmd = "pause")
    /\ [][/\ audio'.src # audio.src =>
                (audio.lastCmd = "pause" /\ audio'.lastCmd = "pause")
          /\ (audio'.lastCmd = "play" /\ audio.lastCmd # "play") =>
                (audio.src = event'.station.url /\ audio'.src = audio.src)]_vars

C5_Witness ==
    /\ pc = "switch_src"
    /\ event.isPlaying
    /\ event.currentStation = Station1
    /\ event.station = Station2
    /\ audio = [src |-> Station1.url, lastCmd |-> "pause"]

(* C6: weather requests are never cancelled and are answered in any order:
   an outstanding request leaves weatherPending only by its own response,
   and a successful response stores its city's weather whatever station is
   current by then. So after selecting A (city X) and then B (city Y), with
   Y's response first and X's last, B is current, the snapshot is X's and
   nothing is outstanding. *)
C6_StaleOverwrite ==
    [][/\ \A c \in Cities :
            weatherPending'[c] < weatherPending[c] =>
                /\ pc = "idle"
                /\ event'.type \in {"weatherOk", "weatherErr"}
                /\ event'.city = c
                /\ weatherPending'[c] = weatherPending[c] - 1
       /\ (pc = "idle" /\ event'.type = "weatherOk") =>
            weatherData' = WeatherData(WeatherResponse(event'.city))]_vars

C6_Witness ==
    /\ pc = "effects"
    /\ event = [type |-> "weatherOk", city |-> Paris]
    /\ weatherLog = <<Paris, Tokyo>>
    /\ currentStation = Station2
    /\ weatherData = WeatherData(WeatherResponse(Paris))
    /\ \A c \in Cities : weatherPending[c] = 0

(* C7: a weather request is issued only by the effects of a selection's
   re-render, for the city of the station that is by then current; every
   selection that changes the current station's city (the first one
   included) issues exactly one; none is issued while no station is current;
   a city requested before is requested again. *)
C7_WeatherRequests ==
    /\ [](currentStation = Null => weatherLog = <<>>)
    /\ [][/\ weatherLog' # weatherLog =>
                /\ pc = "effects"
                /\ event.type = "select"
                /\ currentStation # Null
                /\ currentStation = event.station
                /\ weatherLog' = Append(weatherLog, currentStation.city)
                /\ weatherPending' =
                      [weatherPending EXCEPT ![currentStation.city] = @ + 1]
          /\ weatherPending' = weatherPending \/ weatherLog' # weatherLog
                \/ \E c \in Cities :
                      weatherPending' = [weatherPending EXCEPT ![c] = @ - 1]
          /\ (/\ pc = "effects"
              /\ event.type = "select"
              /\ currentStation # Null
              /\ \/ event.currentStation = Null
                 \/ event.currentStation.city # currentStation.city) =>
                weatherLog' = Append(weatherLog, currentStation.city)]_vars

C7_Witness ==
    /\ pc = "idle"
    /\ stations = <<Station1, Station2>>
    /\ weatherLog = <<Paris, Tokyo, Paris>>
    /\ currentStation = Station1

(* C8: a failed weather request leaves the snapshot as it was (the previous
   one, or none), and the current station, the playing flag, the audio
   handle and the map center unchanged; the snapshot may then be that of a
   station selected earlier. *)
C8_WeatherFailure ==
    [][(\/ pc = "idle" /\ event'.type = "weatherErr"
        \/ event.type = "weatherErr") =>
          /\ weatherData' = weatherData
          /\ currentStation' = currentStation
          /\ isPlaying' = isPlaying
          /\ audio' = audio
          /\ mapCenter' = mapCenter]_vars

C8_Witness ==
    /\ pc = "effects"
    /\ event = [type |-> "weatherErr", city |-> Tokyo]
    /\ currentStation = Station2
    /\ weatherData = WeatherData(WeatherResponse(Paris))

(* C9: when the station load succeeds with list R, the collection is R, the
   loading flag is false, and the map center is the coordinates of R's first
   station, or still the default (20, 0) when R is empty. *)
C9_LoadSuccess ==
    (pc = "effects" /\ event.type = "loadOk") =>
        /\ stations = event.list
        /\ loading = FALSE
        /\ Len(event.list) > 0 =>
              mapCenter = <<event.list[1].geo_lat, event.list[1].geo_long>>
        /\ Len(event.list) = 0 => mapCenter = <<20, 0>>

C9_Witness ==
    /\ pc = "effects"
    /\ event.type = "loadOk"
    /\ stations = <<Station2, Station1>>
    /\ mapCenter = <<35, 139>>

(* C10: when the station load fails, the loading flag is cleared all the
   same (as on every completion), the collection stays empty, the map center
   stays the default, no station is current and no second request is
   issued. *)
C10_LoadFailure ==
    /\ (stationReq \in {"ok", "failed"} /\ pc # "finally") => loading = FALSE
    /\ (stationReq = "failed" /\ pc # "finally") =>
        /\ stations = <<>>
        /\ mapCenter = <<20, 0>>
        /\ currentStation = Null
        /\ stationRequests = 1

C10_Witness ==
    /\ stationReq = "failed"
    /\ pc = "idle"
    /\ loading = FALSE
    /\ searchQuery # <<>>

(* C11: over a run exactly one station-directory request is issued, by the
   mount effect: no keystroke, selection, weather response or load outcome
   issues another, and so the station collection is assigned at most once
   (only while that one request is pending, which it never is again). *)
C11_OneStationRequest ==
    /\ [](stationRequests = IF pc = "mount" THEN 0 ELSE 1)
    /\ [][/\ stationRequests' # stationRequests => pc = "mount"
          /\ stationReq' = "pending" => pc = "mount"
          /\ (pc = "idle" /\ event'.type = "loadOk") => stationReq = "pending"
          /\ stationReq \in {"ok", "failed"} =>
                (stationReq' = stationReq /\ stations' = stations)]_vars

C11_Witness ==
    /\ pc = "idle"
    /\ stationReq = "ok"
    /\ stationRequests = 1
    /\ searchQuery = <<"o">>
    /\ currentStation = Station2
    /\ weatherData = WeatherData(WeatherResponse(Tokyo))

(* The last two clicks were both on the station that was current at the
   first of them, and the handler of the second has finished. *)
AfterSecondToggle ==
    /\ pc = "effects"
    /\ event.type = "select"
    /\ Len(selectHist) = 2
    /\ selectHist[1].currentStation # Null
    /\ selectHist[1].currentStation.id = selectHist[1].station.id
    /\ selectHist[2].station.id = selectHist[1].station.id

(* C12: with A current, playing or paused, selecting A twice in a row (no
   other selection in between) brings the playing flag and the command last
   given to the audio handle back to what they were before the two
   selections, with current station, audio source and map center unchanged. *)
C12_DoubleToggle ==
    AfterSecondToggle =>
        /\ isPlaying = selectHist[1].isPlaying
        /\ audio.lastCmd = selectHist[1].audio.lastCmd
        /\ currentStation = selectHist[1].currentStation
        /\ audio.src = selectHist[1].audio.src
        /\ mapCenter = selectHist[1].mapCenter

C12_Witness ==
    /\ AfterSecondToggle
    /\ selectHist[1].isPlaying = FALSE
    /\ selectHist[2].isPlaying = TRUE
    /\ isPlaying = FALSE
    /\ currentStation = Station3

(* Comparison without regard to case: two characters are the same when
   their case foldings are, and the three sigmas fold to one. *)
CaseFold(c) == IF c \in {"SIGMA", "sigmaf"} THEN "sigma" ELSE LowerChar(c)

FoldString(str) == [i \in 1..Len(str) |-> CaseFold(str[i])]

ContainsIgnoringCase(text, query) ==
    \E i \in 0..(Len(text) - Len(query)) :
        FoldString(SubSeq(text, i + 1, i + Len(query))) = FoldString(query)

ExpectedView(list, query) ==
    SelectSeq(list, LAMBDA s : \/ ContainsIgnoringCase(s.name, query)
                               \/ ContainsIgnoringCase(s.country, query)
                               \/ ContainsIgnoringCase(s.city, query))

(* C13: for every query Q and station collection S the filtered view is
   exactly the subsequence of S, in S's order, of the stations of which Q,
   compared without regard to case, is a contiguous substring of the name,
   the country or the city; the empty query yields S. *)
C13_FilterExact ==
    pc = "rendered" =>
        /\ event.view = ExpectedView(stations, searchQuery)
        /\ searchQuery = <<>> => event.view = stations

(* C14: whenever a station is current the map center is that station's
   coordinates. No selection runs while loading is true, and the load
   completion has written the map center before it clears loading, so the
   load result never overwrites a center set by a selection. Before any
   selection the center is the default or the first loaded station's. *)
C14_MapCenter ==
    /\ currentStation # Null =>
          mapCenter = <<currentStation.geo_lat, currentStation.geo_long>>
    /\ currentStation = Null =>
          \/ mapCenter = <<20, 0>>
          \/ /\ Len(stations) > 0
             /\ mapCenter = <<stations[1].geo_lat, stations[1].geo_long>>
    /\ loading => (currentStation = Null /\ event.type # "select")
    /\ (pc = "finally" /\ stationReq = "ok") =>
          /\ loading
          /\ mapCenter = IF Len(stations) > 0
                         THEN <<stations[1].geo_lat, stations[1].geo_long>>
                         ELSE <<20, 0>>

C14_Witness ==
    /\ pc = "idle"
    /\ stations = <<Station1, Station2>>
    /\ currentStation = Station2
    /\ mapCenter = <<35, 139>>
    /\ stationReq = "ok"

(* C15: between callbacks the audio handle mirrors the playback state: with
   a station current the audio source is its stream URL, and playing is true
   exactly when the last command given to the handle was play; and only a
   station selection ever gives the handle a command or a source. *)
C15_AudioMirrors ==
    /\ [](pc = "idle" =>
            /\ currentStation # Null => audio.src = currentStation.url
            /\ isPlaying <=> audio.lastCmd = "play")
    /\ [][audio' # audio => (event'.type = "select" /\ pc' # "idle")]_vars

C15_Witness ==
    /\ pc = "idle"
    /\ currentStation = Station2
    /\ isPlaying = FALSE
    /\ audio = [src |-> "http://s2", lastCmd |-> "pause"]
    /\ weatherData = WeatherData(WeatherResponse(Tokyo))

(* C16: once a station has been selected the current station is never
   cleared by any later event, and the current station is always a member of
   the loaded station collection. *)
C16_NeverCleared ==
    /\ [](currentStation # Null =>
            \E i \in 1..Len(stations) : stations[i] = currentStation)
    /\ [][currentStation # Null => currentStation' # Null]_vars

C16_Witness ==
    /\ pc = "idle"
    /\ currentStation = Station1
    /\ searchQuery = <<"x">>
    /\ weatherPending[Paris] = 0
    /\ weatherData = Null

(* A step of a change of the search text: the keystroke and the effects of
   its re-render. *)
SearchStep ==
    \/ pc = "idle" /\ event'.type = "search"
    \/ event.type = "search"

(* C17: changing the search query changes only the query: collection,
   current station, playing flag, audio handle, map center and weather
   snapshot stay and no request is issued, also when the new query filters
   the current station out of the view. *)
C17_SearchFrame ==
    [][SearchStep =>
          /\ stations' = stations
          /\ currentStation' = currentStation
          /\ isPlaying' = isPlaying
          /\ audio' = audio
          /\ mapCenter' = mapCenter
          /\ weatherData' = weatherData
          /\ weatherLog' = weatherLog
          /\ weatherPending' = weatherPending
          /\ stationRequests' = stationRequests
          /\ stationReq' = stationReq
          /\ loading' = loading]_vars

C17_Witness ==
    /\ pc = "effects"
    /\ event.type = "search"
    /\ currentStation = Station2
    /\ isPlaying
    /\ Station2 \notin InView(stations, searchQuery)
    /\ Station1 \in InView(stations, searchQuery)

====
